---- MODULE Spec2Model ----
(***************************************************************************)
(* State-machine model of gps_node.cpp: the UART polling loop of main(),   *)
(* the GLL line capture (start character 'L', end of line '\r', validity   *)
(* character 'V'), ProcessGPSData and ConvertDMSToDD.                      *)
(*                                                                         *)
(* Characters are their ASCII codes, because the program does arithmetic   *)
(* on them (GPS_data_array[X]-'0').  Coordinates are kept exactly, in whole   *)
(* degrees and thousandths of an arc-second (see DD).                      *)
(***************************************************************************)
EXTENDS Integers, Sequences, FiniteSets, TLC

VARIABLES
    pc,                   \* position in main: "drain", "publish", "sleep", "crashed"
    rx,                   \* bytes available in the UART RX buffer
    enable_data_capture,  \* line 104
    data_is_valid,        \* line 105, declared without a value
    array_index,          \* line 105, declared without a value
    data_capture_array,   \* line 106, char[40], not initialised
    latitude, longitude,  \* line 29, globals, zero-initialised
    msg,                  \* what the last publish step handed to sensor_pub
    nchunks,              \* number of chunks the transport has delivered
    readUnassigned,       \* history: a local was read before any assignment
    gArmed,               \* history: the byte stream is inside an 'L' ... '\r' sentence
    gBody,                \* history: the bytes of the stream since the last 'L'
    gFixedSeen,           \* history: some sentence without 'V' has been completed
    gNoFix,               \* history: the last completed sentence carried 'V'
    gOverrun,             \* history: some run after 'L' exceeded the capacity
    gCycleEnd,            \* history: body of the sentence whose '\r' was the
                          \*          last byte drained in this cycle, or NoSentence
    gCycleBodies,         \* history: bodies of the sentences completed in this cycle
    gCycleRead,           \* history: a byte has been drained in this cycle
    gInCycle,             \* history: the last 'L' was read in this cycle
    gLastRead,            \* history: the last byte read, or NoByte
    gRestart              \* history: what the last 'L' interrupted: "no" sentence,
                          \*          an "armed" one, or an armed one with 'V' ("armedV")

vars == <<pc, rx, enable_data_capture, data_is_valid, array_index,
          data_capture_array, latitude, longitude, msg, nchunks, readUnassigned,
          gArmed, gBody, gFixedSeen, gNoFix, gOverrun, gCycleEnd,
          gCycleBodies, gCycleRead, gInCycle, gLastRead, gRestart>>

progVars == <<enable_data_capture, data_is_valid, array_index,
              data_capture_array, latitude, longitude>>

(***************************************************************************)
(* Characters                                                              *)
(***************************************************************************)
\* Characters the program names: '\r', '0', 'E', 'L', 'N', 'V'
CR == 13
Zero == 48
ChE == 69
ChL == 76
ChN == 78
ChV == 86

\* Other characters of the byte streams fed to it
Ascii == [nul |-> 0, lf |-> 10, dollar |-> 36, star |-> 42, comma |-> 44,
          dot |-> 46, A |-> 65, G |-> 71, P |-> 80, S |-> 83, W |-> 87, X |-> 88]
NUL == Ascii.nul
LF == Ascii.lf
Dollar == Ascii.dollar
Star == Ascii.star
Comma == Ascii.comma
Dot == Ascii.dot
ChA == Ascii.A
ChG == Ascii.G
ChP == Ascii.P
ChS == Ascii.S
ChW == Ascii.W
ChX == Ascii.X

IsDigit(c) == c >= Zero /\ c <= Zero + 9

(***************************************************************************)
(* Bounds                                                                  *)
(***************************************************************************)
MaxChunks == 3
MaxIndex == 46

CAPACITY == 40

\* marks an unsigned int that has not been assigned yet
Unassigned == 0 - 1
NoMsg == <<>>
NoSentence == <<0 - 1>>
NoByte == 0 - 1


(***************************************************************************)
(* ConvertDMSToDD and ProcessGPSData                                       *)
(***************************************************************************)
\* GPS_data_array[i]-'0'
CharToInt(a, i) == a[i] - Zero

\* A float of the program is kept exactly, as <<d, f>> standing for
\* d + f / (3600 * 1000) degrees with 0 <= f < 3600 * 1000.
UnitsPerDegree == 3600 * 1000
DD(d, f) == << d + (f \div UnitsPerDegree), f % UnitsPerDegree >>
DDZero == DD(0, 0)

\* float DecDeg = dir * ((float)deg) + ((float)min/60) + (sec/3600);
\* sec is given in thousandths of a second.
ConvertDMSToDD(deg, min, sec, dir) == DD(dir * deg, min * (60 * 1000) + sec)

lat_deg(a) == CharToInt(a, 1) * 10 + CharToInt(a, 2)
lat_min(a) == CharToInt(a, 3) * 10 + CharToInt(a, 4)
lat_sec(a) == CharToInt(a, 6) * 10000 + CharToInt(a, 7) * 1000
              + CharToInt(a, 8) * 100 + CharToInt(a, 9) * 10 + CharToInt(a, 10)
lat_dir(a) == IF a[12] = ChN THEN 1 ELSE -1

long_deg(a) == CharToInt(a, 14) * 100 + CharToInt(a, 15) * 10 + CharToInt(a, 16)
long_min(a) == CharToInt(a, 17) * 10 + CharToInt(a, 18)
long_sec(a) == CharToInt(a, 20) * 10000 + CharToInt(a, 21) * 1000
               + CharToInt(a, 22) * 100 + CharToInt(a, 23) * 10 + CharToInt(a, 24)
long_dir(a) == IF a[26] = ChE THEN 1 ELSE -1

\* The pair <<latitude, longitude>> that ProcessGPSData(a) stores.
ProcessGPSData(a) ==
    << ConvertDMSToDD(lat_deg(a), lat_min(a), lat_sec(a), lat_dir(a)),
       ConvertDMSToDD(long_deg(a), long_min(a), long_sec(a), long_dir(a)) >>

(***************************************************************************)
(* The byte streams the transport delivers                                 *)
(***************************************************************************)
Digs(s) == [i \in 1..Len(s) |-> Zero + s[i]]

\* Body of a GLL line after its 'L': ,ddmm.mmmmm,N,dddmm.mmmmm,E<tail>
GLL(lat, ns, lon, ew, tail) ==
    <<Comma>> \o SubSeq(lat, 1, 4) \o <<Dot>> \o SubSeq(lat, 5, 9)
    \o <<Comma, ns, Comma>>
    \o SubSeq(lon, 1, 5) \o <<Dot>> \o SubSeq(lon, 6, 10) \o <<Comma, ew>> \o tail

Line(body) == <<ChL>> \o body \o <<CR>>

LatA == Digs(<<4, 9, 1, 6, 4, 5, 0, 0, 0>>)
LonA == Digs(<<1, 2, 3, 1, 1, 1, 2, 0, 0, 0>>)
LatZero == Digs(<<0, 0, 0, 0, 0, 0, 0, 0, 0>>)
LonZero == Digs(<<0, 0, 0, 0, 0, 0, 0, 0, 0, 0>>)
LatHigh == Digs(<<9, 9, 1, 6, 4, 5, 0, 0, 0>>)
LatBad == <<ChX>> \o SubSeq(LatA, 2, 9)

\* the fields after the longitude hemisphere: UTC time (here empty), status
TailA == <<Comma, Comma, ChA>>
TailV == <<Comma, Comma, ChV>>
\* a 'V' in the time field, status A
TailVA == <<Comma, ChV, Comma, ChA>>
\* ,124923.00,A,A*6E : the tail the module sends, 17 characters
TailTime == <<Comma>> \o Digs(<<1, 2, 4, 9, 2, 3>>) \o <<Dot>> \o Digs(<<0, 0>>)
TailReal == TailTime \o <<Comma, ChA, Comma, ChA, Star>> \o Digs(<<6>>) \o <<ChE>>
TailVLong == TailTime \o <<Comma, ChV, Comma, ChN>>

BodyA == GLL(LatA, ChN, LonA, ChE, TailA)
SplitAt == 5

Chunks ==
    { Line(BodyA),
      Line(GLL(LatA, ChS, LonA, ChW, TailA)),
      Line(GLL(LatZero, ChN, LonZero, ChE, TailA)),
      Line(GLL(LatA, ChN, LonA, ChE, TailV)),
      Line(GLL(LatBad, ChN, LonA, ChE, TailA)),
      Line(GLL(LatA, ChX, LonA, ChE, TailA)),
      Line(GLL(LatHigh, ChN, LonA, ChE, TailA)),
      <<ChL, CR>>,
      <<Dollar, ChG, ChP, ChG, ChL>> \o Line(GLL(LatA, ChN, LonA, ChE, TailReal)) \o <<LF>>,
      Line(GLL(LatA, ChN, LonA, ChE, TailVLong)),
      Line(GLL(LatA, ChN, LonA, ChE, TailVA)),
      <<ChL>> \o SubSeq(BodyA, 1, SplitAt),
      SubSeq(BodyA, SplitAt + 1, Len(BodyA)) \o <<CR>>,
      <<CR, LF>>,
      <<ChV>> }

\* What an uninitialised char data_capture_array[40] may hold.
Indeterminate == {NUL, Zero}

(***************************************************************************)
(* History of the byte stream (independent of the program's variables)     *)
(***************************************************************************)
HasV(body) == \E i \in 1..Len(body) : body[i] = ChV

GhostRead(c) ==
    LET completes == gArmed /\ c = CR IN
    /\ gArmed' = IF c = ChL THEN TRUE ELSE IF c = CR THEN FALSE ELSE gArmed
    /\ gBody' = IF c = ChL THEN <<>>
                ELSE IF gArmed /\ c # CR THEN Append(gBody, c) ELSE gBody
    /\ gFixedSeen' = (gFixedSeen \/ (completes /\ ~HasV(gBody)))
    /\ gNoFix' = IF completes THEN HasV(gBody) ELSE gNoFix
    /\ gOverrun' = (gOverrun \/ (gArmed /\ c \notin {ChL, CR} /\ Len(gBody) >= CAPACITY))
    /\ gCycleEnd' = IF completes THEN gBody ELSE NoSentence
    /\ gCycleBodies' = IF completes THEN Append(gCycleBodies, gBody) ELSE gCycleBodies
    /\ gCycleRead' = TRUE
    /\ gInCycle' = IF c = ChL THEN TRUE ELSE gInCycle
    /\ gLastRead' = c
    /\ gRestart' = IF c # ChL THEN gRestart
                   ELSE IF ~gArmed THEN "no"
                   ELSE IF HasV(gBody) THEN "armedV" ELSE "armed"

GhostSame == UNCHANGED <<gArmed, gBody, gFixedSeen, gNoFix, gOverrun, gCycleEnd,
                         gCycleBodies, gCycleRead, gInCycle, gLastRead, gRestart>>

(***************************************************************************)
(* Initial state: main() up to the first evaluation of ros::ok()           *)
(***************************************************************************)
Init ==
    /\ pc = "drain"
    /\ rx = <<>>
    /\ enable_data_capture = 0
    /\ data_is_valid = Unassigned
    /\ array_index = Unassigned
    /\ \E g \in Indeterminate : data_capture_array = [i \in 0..(CAPACITY - 1) |-> g]
    /\ latitude = DDZero
    /\ longitude = DDZero
    /\ msg = NoMsg
    /\ nchunks = 0
    /\ readUnassigned = FALSE
    /\ gArmed = FALSE
    /\ gBody = <<>>
    /\ gFixedSeen = FALSE
    /\ gNoFix = FALSE
    /\ gOverrun = FALSE
    /\ gCycleEnd = NoSentence
    /\ gCycleBodies = <<>>
    /\ gCycleRead = FALSE
    /\ gInCycle = FALSE
    /\ gLastRead = NoByte
    /\ gRestart = "no"

\* The values a read of an unsigned int local can give.
ValueRead(x) == IF x = Unassigned THEN {0, 1} ELSE {x}

(***************************************************************************)
(* The transport: a chunk of bytes becomes available                       *)
(***************************************************************************)
Arrive ==
    /\ pc = "drain"
    /\ rx = <<>>
    /\ nchunks < MaxChunks
    /\ \E c \in Chunks : rx' = c
    /\ nchunks' = nchunks + 1
    /\ UNCHANGED <<pc, progVars, msg, readUnassigned>>
    /\ GhostSame

(***************************************************************************)
(* One iteration of while(1) with serialDataAvail(fd) != 0                 *)
(***************************************************************************)
Avail == pc = "drain" /\ rx # <<>>

\* StartCharacter without line 130: the validity flag is not set again
StartCharacter_KeepsValidity ==
    /\ Avail
    /\ Head(rx) = ChL
    /\ rx' = Tail(rx)
    /\ enable_data_capture' = 1
    /\ array_index' = 0
    /\ GhostRead(Head(rx))
    /\ UNCHANGED <<pc, data_is_valid, data_capture_array, latitude, longitude, msg,
                   nchunks, readUnassigned>>

\* uartChar == 'L'
StartCharacter ==
    /\ Avail
    /\ Head(rx) = ChL
    /\ rx' = Tail(rx)
    /\ enable_data_capture' = 1
    /\ array_index' = 0
    /\ data_is_valid' = 1
    /\ GhostRead(Head(rx))
    /\ UNCHANGED <<pc, data_capture_array, latitude, longitude, msg, nchunks,
                   readUnassigned>>

\* Discard with the test for 'V' made outside if(enable_data_capture)
Discard_MarksV ==
    /\ Avail
    /\ Head(rx) # ChL
    /\ enable_data_capture = 0
    /\ rx' = Tail(rx)
    /\ data_is_valid' = IF Head(rx) = ChV THEN 0 ELSE data_is_valid
    /\ GhostRead(Head(rx))
    /\ UNCHANGED <<pc, enable_data_capture, array_index, data_capture_array,
                   latitude, longitude, msg, nchunks, readUnassigned>>

\* not 'L' and data capture is not enabled
Discard ==
    /\ Avail
    /\ Head(rx) # ChL
    /\ enable_data_capture = 0
    /\ rx' = Tail(rx)
    /\ GhostRead(Head(rx))
    /\ UNCHANGED <<pc, progVars, msg, nchunks, readUnassigned>>

\* case '\r' with data_is_valid != 0
EndOfLineValid ==
    /\ Avail
    /\ Head(rx) = CR
    /\ enable_data_capture # 0
    /\ \E v \in ValueRead(data_is_valid) : v # 0
    /\ rx' = Tail(rx)
    /\ enable_data_capture' = 0
    /\ latitude' = ProcessGPSData(data_capture_array)[1]
    /\ longitude' = ProcessGPSData(data_capture_array)[2]
    /\ readUnassigned' = (readUnassigned \/ data_is_valid = Unassigned)
    /\ GhostRead(Head(rx))
    /\ UNCHANGED <<pc, data_is_valid, array_index, data_capture_array, msg, nchunks>>

\* case '\r' with data_is_valid == 0
EndOfLineNoFix ==
    /\ Avail
    /\ Head(rx) = CR
    /\ enable_data_capture # 0
    /\ \E v \in ValueRead(data_is_valid) : v = 0
    /\ rx' = Tail(rx)
    /\ enable_data_capture' = 0
    /\ readUnassigned' = (readUnassigned \/ data_is_valid = Unassigned)
    /\ GhostRead(Head(rx))
    /\ UNCHANGED <<pc, data_is_valid, array_index, data_capture_array, latitude,
                   longitude, msg, nchunks>>

\* case 'V' (falls through) and default, the write inside the array
Capture ==
    /\ Avail
    /\ Head(rx) \notin {ChL, CR}
    /\ enable_data_capture # 0
    /\ \E i \in ValueRead(array_index) :
          /\ i < CAPACITY
          /\ data_capture_array' = [data_capture_array EXCEPT ![i] = Head(rx)]
          /\ array_index' = i + 1
    /\ data_is_valid' = IF Head(rx) = ChV THEN 0 ELSE data_is_valid
    /\ rx' = Tail(rx)
    /\ readUnassigned' = (readUnassigned \/ array_index = Unassigned)
    /\ GhostRead(Head(rx))
    /\ UNCHANGED <<pc, enable_data_capture, latitude, longitude, msg, nchunks>>

\* What the store data_capture_array[array_index] = uartChar can do when
\* array_index >= 40: the byte lands outside the array, in main's frame.
Outcomes == {"unused", "data_is_valid", "array_index", "crash"}

\* case 'V' (falls through) and default, the write past the array
CaptureOverflow ==
    /\ Avail
    /\ Head(rx) \notin {ChL, CR}
    /\ enable_data_capture # 0
    /\ array_index # Unassigned
    /\ array_index >= CAPACITY
    /\ array_index < MaxIndex
    /\ rx' = Tail(rx)
    /\ \E o \in Outcomes :
          /\ pc' = IF o = "crash" THEN "crashed" ELSE pc
          /\ data_is_valid' = IF o = "data_is_valid" THEN 1
                              ELSE IF Head(rx) = ChV THEN 0 ELSE data_is_valid
          /\ array_index' = IF o = "array_index" THEN Head(rx) + 1
                            ELSE array_index + 1
    /\ GhostRead(Head(rx))
    /\ UNCHANGED <<enable_data_capture, data_capture_array, latitude, longitude,
                   msg, nchunks, readUnassigned>>

(***************************************************************************)
(* serialDataAvail(fd) == 0: leave while(1)                                *)
(***************************************************************************)
\* DrainEnd without lines 155-157
DrainEnd_NoStartupTest ==
    /\ pc = "drain"
    /\ rx = <<>>
    /\ pc' = "publish"
    /\ UNCHANGED <<rx, progVars, msg, nchunks, readUnassigned>>
    /\ GhostSame

DrainEnd ==
    /\ pc = "drain"
    /\ rx = <<>>
    /\ data_is_valid' = IF latitude = DDZero /\ longitude = DDZero THEN 0 ELSE data_is_valid
    /\ pc' = "publish"
    /\ UNCHANGED <<rx, enable_data_capture, array_index, data_capture_array,
                   latitude, longitude, msg, nchunks, readUnassigned>>
    /\ GhostSame

(***************************************************************************)
(* Publish readings                                                        *)
(***************************************************************************)
Publish ==
    /\ pc = "publish"
    /\ \E v \in ValueRead(data_is_valid) : v # 0
    /\ msg' = <<latitude, longitude>>
    /\ pc' = "sleep"
    /\ readUnassigned' = (readUnassigned \/ data_is_valid = Unassigned)
    /\ UNCHANGED <<rx, progVars, nchunks>>
    /\ GhostSame

NoPublish ==
    /\ pc = "publish"
    /\ \E v \in ValueRead(data_is_valid) : v = 0
    /\ msg' = NoMsg
    /\ pc' = "sleep"
    /\ readUnassigned' = (readUnassigned \/ data_is_valid = Unassigned)
    /\ UNCHANGED <<rx, progVars, nchunks>>
    /\ GhostSame

\* ros::spinOnce(); loop_rate.sleep(); ros::ok()
Sleep ==
    /\ pc = "sleep"
    /\ pc' = "drain"
    /\ gCycleEnd' = NoSentence
    /\ gCycleBodies' = <<>>
    /\ gCycleRead' = FALSE
    /\ gInCycle' = FALSE
    /\ UNCHANGED <<rx, progVars, msg, nchunks, readUnassigned,
                   gArmed, gBody, gFixedSeen, gNoFix, gOverrun, gLastRead, gRestart>>

Next ==
    \/ Arrive
    \/ StartCharacter
    \/ Discard
    \/ EndOfLineValid
    \/ EndOfLineNoFix
    \/ Capture
    \/ CaptureOverflow
    \/ DrainEnd
    \/ Publish
    \/ NoPublish
    \/ Sleep

Spec == Init /\ [][Next]_vars

TypeOK ==
    /\ pc \in {"drain", "publish", "sleep", "crashed"}
    /\ enable_data_capture \in {0, 1}
    /\ data_is_valid \in {Unassigned, 0, 1}

(***************************************************************************)
(* Vocabulary of the claims                                                *)
(***************************************************************************)
\* body as the char array the decoder indexes from 0
AsArray(body) == [i \in 0..(Len(body) - 1) |-> body[i + 1]]

\* The step reads a '\r' from the UART.
ReadsCR == Avail /\ Head(rx) = CR /\ rx' = Tail(rx)
\* The step reads the '\r' that ends the sentence of the byte stream.
Completes == gArmed /\ ReadsCR

\* The step runs ProcessGPSData (case '\r' with data_is_valid set).
Decodes == ReadsCR /\ enable_data_capture # 0 /\ data_is_valid = 1
StoredSame == latitude' = latitude /\ longitude' = longitude

\* Positions of the buffer where ProcessGPSData expects a digit, the
\* hemisphere positions, and the number of bytes it needs.
DigitPositions == {1, 2, 3, 4, 6, 7, 8, 9, 10, 14, 15, 16, 17, 18, 20, 21, 22, 23, 24}
LatHemiPos == 12
LongHemiPos == 26
NeededLength == 27

DigitsOK(body) == \A p \in DigitPositions : IsDigit(body[p + 1])
HemiOK(body) == body[LatHemiPos + 1] \in {ChN, ChS} /\ body[LongHemiPos + 1] \in {ChE, ChW}
WellFormed(body) == Len(body) >= NeededLength /\ DigitsOK(body) /\ HemiOK(body)

\* sign(hemisphere) * (deg + min/60 + sec/3600), from the digits of a body
DDNeg(x) == DD(0 - x[1], 0 - x[2])
Num(body, first, last) ==
    LET RECURSIVE N(_)
        N(p) == IF p < first THEN 0 ELSE 10 * N(p - 1) + (body[p + 1] - Zero)
    IN N(last)
LawLat(body) ==
    LET v == DD(Num(body, 1, 2), Num(body, 3, 4) * (60 * 1000)
                                 + Num(body, 6, 10))
    IN IF body[LatHemiPos + 1] = ChN THEN v ELSE DDNeg(v)
LawLong(body) ==
    LET v == DD(Num(body, 14, 16), Num(body, 17, 18) * (60 * 1000)
                                   + Num(body, 20, 24))
    IN IF body[LongHemiPos + 1] = ChE THEN v ELSE DDNeg(v)

\* -bound <= x <= bound, in degrees
DDWithin(x, bound) == x[1] >= 0 - bound /\ (x[1] < bound \/ (x[1] = bound /\ x[2] = 0))

\* C1: no message is published before a sentence without 'V' has been
\* completed ('L' ... '\r'), and the zero-initialised pair is never published.
C1_StartupSuppression ==
    /\ msg # NoMsg => gFixedSeen
    /\ msg # <<DDZero, DDZero>>

\* C2: when the last byte drained in a cycle is the '\r' of a well-formed
\* sentence without 'V', the cycle publishes the pair decoded from that
\* sentence, and that pair is the stored fix (also when it is 0, 0).
C2_ValidFixEmitted ==
    (pc = "sleep" /\ gCycleEnd # NoSentence /\ ~HasV(gCycleEnd) /\ WellFormed(gCycleEnd))
        => /\ msg = ProcessGPSData(AsArray(gCycleEnd))
           /\ <<latitude, longitude>> = msg

\* C3: while the last completed sentence is one that carried 'V', no cycle
\* publishes a message.
C3_NotFixedSuppression == (pc = "sleep" /\ gNoFix) => msg = NoMsg

\* C4: the pair stored by ProcessGPSData for a well-formed sentence without
\* 'V' is sign(hemisphere) * (deg + min/60 + sec/3600) of its digits, exactly.
C4_ConversionLaw ==
    [][(Completes /\ Decodes /\ ~HasV(gBody) /\ WellFormed(gBody)
            /\ Len(gBody) <= CAPACITY)
        => /\ latitude' = LawLat(gBody)
           /\ longitude' = LawLong(gBody)]_vars

\* C5: every stored and every published latitude lies in [-90, 90] and every
\* longitude in [-180, 180].
C5_RangeInvariant ==
    /\ DDWithin(latitude, 90) /\ DDWithin(longitude, 180)
    /\ msg # NoMsg => DDWithin(msg[1], 90) /\ DDWithin(msg[2], 180)

\* C6: the '\r' of a sentence without 'V' that has a non-digit at an expected
\* digit position leaves the stored latitude and longitude unchanged.
C6_InvalidDigitsRejected ==
    [][(Completes /\ ~HasV(gBody) /\ Len(gBody) >= NeededLength /\ ~DigitsOK(gBody))
        => StoredSame]_vars

\* C7: the '\r' of a sentence without 'V' whose hemisphere characters are not
\* N or S, E or W leaves the stored latitude and longitude unchanged.
C7_InvalidHemisphereRejected ==
    [][(Completes /\ ~HasV(gBody) /\ Len(gBody) >= NeededLength /\ DigitsOK(gBody)
            /\ ~HemiOK(gBody))
        => StoredSame]_vars

\* C8: the '\r' of a sentence with fewer than 27 body bytes does not run the
\* decoder (which would read positions not written during this sentence) and
\* leaves the stored latitude and longitude unchanged.
C8_ShortSentenceRejected ==
    [][(Completes /\ Len(gBody) < NeededLength) => (~Decodes /\ StoredSame)]_vars

\* C9: the number of bytes captured for the sentence in flight never exceeds
\* the capacity of data_capture_array.
C9_BoundedBuffering == array_index <= CAPACITY

\* C10: the '\r' after a run of more than 40 bytes behind an 'L' leaves the
\* stored latitude and longitude unchanged, and a sentence decoded after such
\* a run is decoded from its own bytes.
C10_OverlongDiscarded ==
    [][/\ (Completes /\ Len(gBody) > CAPACITY) => StoredSame
       /\ (gOverrun /\ Completes /\ Decodes /\ Len(gBody) >= NeededLength
              /\ Len(gBody) <= CAPACITY)
            => <<latitude', longitude'>> = ProcessGPSData(AsArray(gBody))]_vars

\* The step runs the resolution of a captured line (case '\r' while capturing).
Resolves == ReadsCR /\ enable_data_capture # 0
\* Every position ProcessGPSData reads holds a byte of the sentence in flight.
ReadPositions == DigitPositions \cup {LatHemiPos, LongHemiPos}
OwnBytes ==
    /\ Len(gBody) >= NeededLength
    /\ \A p \in ReadPositions : data_capture_array[p] = gBody[p + 1]

\* C11: a sentence that is received whole in a cycle in which another
\* sentence was completed before it is resolved at its own '\r', once, by a
\* decode exactly when it carries no 'V', and the decode reads only bytes of
\* that sentence; nothing is resolved at any other byte.
C11_BackToBackFraming ==
    [][/\ (Completes /\ gInCycle /\ Len(gCycleBodies) >= 1)
            => /\ Resolves
               /\ enable_data_capture' = 0
               /\ Decodes <=> ~HasV(gBody)
               /\ Decodes => OwnBytes
       /\ Resolves => Completes]_vars

\* The fixes of the well-formed sentences without 'V' completed in this cycle.
CycleFixes ==
    { ProcessGPSData(AsArray(gCycleBodies[i])) :
        i \in { j \in 1..Len(gCycleBodies) :
                  ~HasV(gCycleBodies[j]) /\ WellFormed(gCycleBodies[j]) } }

\* C12: when sentences with different fixes were completed in one cycle,
\* each of these fixes is published by that cycle.
C12_NoFixDropped ==
    (pc = "sleep" /\ Cardinality(CycleFixes) >= 2)
        => \A f \in CycleFixes : msg = f

\* The armed flag, capture index and buffer, and the stored fix, stay as they are.
FramerSame ==
    /\ enable_data_capture' = enable_data_capture
    /\ array_index' = array_index
    /\ data_capture_array' = data_capture_array
    /\ StoredSame

\* C13: in a cycle that drains no byte, leaving the drain loop and the publish
\* step leave the framer state and the stored fix unchanged, and the publish
\* step publishes nothing.
C13_StarvedCycleNoOp ==
    [][(~gCycleRead /\ rx' = rx /\ pc' # pc)
        => /\ FramerSame
           /\ pc = "publish" => msg' = NoMsg]_vars

\* The step reads an 'L' from the UART.
ReadsL == Avail /\ Head(rx) = ChL /\ rx' = Tail(rx)

\* C14: reading 'L' in any state arms the capture with index 0 and the
\* validity flag set, stores nothing in the buffer and leaves the stored fix;
\* a sentence restarted by an 'L' that interrupted another one, received in
\* one cycle within the buffer, is decoded exactly when it carries no 'V'
\* itself.
C14_LastStartWins ==
    [][/\ ReadsL => /\ enable_data_capture' = 1
                    /\ array_index' = 0
                    /\ data_is_valid' = 1
                    /\ data_capture_array' = data_capture_array
                    /\ StoredSame
       /\ (Completes /\ gRestart # "no" /\ gInCycle /\ Len(gBody) <= CAPACITY)
            => (Decodes <=> ~HasV(gBody))]_vars

\* An 'L' has just interrupted an armed sentence that carried 'V'.
C14_Witness ==
    /\ gLastRead = ChL
    /\ gRestart = "armedV"
    /\ enable_data_capture = 1 /\ array_index = 0 /\ data_is_valid = 1

\* The status field of a GLL body is its field 6, counted from 0 between
\* commas: ,lat,N,long,E,time,status.  StatusIs(body, c): that field is the
\* single character c.
CommasBefore(body, i) == Cardinality({j \in 1..(i - 1) : body[j] = Comma})
StatusIs(body, c) ==
    \E i \in 2..Len(body) :
        /\ body[i] = c
        /\ body[i - 1] = Comma
        /\ CommasBefore(body, i) = 6
        /\ i = Len(body) \/ body[i + 1] = Comma

\* C15: a completed sentence is resolved as not-fixed exactly when its status
\* field is 'V'; otherwise it is decoded.
C15_ValidityFromStatusField ==
    [][(Completes /\ Resolves) => (~Decodes <=> StatusIs(gBody, ChV))]_vars

\* C16: the stored latitude and longitude change only in the step that reads
\* the '\r' completing a sentence that carries no 'V'.
C16_StoredFixFrame ==
    [][~StoredSame => (Completes /\ ~HasV(gBody))]_vars

\* C17: while the byte stream is outside a sentence, reading a byte other
\* than 'L' leaves the armed flag, capture index, buffer, validity flag and
\* stored fix unchanged; the '\r' of a sentence clears the armed flag, and a
\* line is resolved only at the '\r' of a sentence.
C17_OutsideBytesDiscarded ==
    [][/\ (Avail /\ ~gArmed /\ Head(rx) # ChL /\ rx' = Tail(rx))
            => (FramerSame /\ data_is_valid' = data_is_valid)
       /\ Completes => enable_data_capture' = 0
       /\ Resolves => Completes]_vars

\* A 'V' has just been discarded after the sentence that stored a fix.
C17_Witness ==
    /\ gLastRead = ChV
    /\ ~gArmed
    /\ enable_data_capture = 0
    /\ data_is_valid = 1
    /\ latitude # DDZero

\* C18: whatever was received before it, the '\r' of a complete well-formed
\* sentence without 'V' leaves as stored fix the decode of that sentence alone.
C18_NoCarryOver ==
    [][(Completes /\ ~HasV(gBody) /\ WellFormed(gBody))
        => <<latitude', longitude'>> = ProcessGPSData(AsArray(gBody))]_vars

\* C19: the drain loop takes one byte per iteration and hands it to the line
\* capture, is left only when no byte is available, and is left for the
\* publish step and nothing else.
C19_DrainTerminates ==
    [][/\ (Avail /\ rx' # rx) => (rx' = Tail(rx) /\ gLastRead' = Head(rx))
       /\ (pc = "drain" /\ pc' # "drain") => (rx = <<>> /\ pc' = "publish")]_vars

\* C20: data_is_valid and array_index are never read before they have been
\* assigned.
C20_NoUnassignedRead == ~readUnassigned

\* The publish test has run at the end of a first cycle that drained only a
\* 'V' outside any sentence.
C20_Witness ==
    /\ pc = "sleep"
    /\ nchunks = 1
    /\ gLastRead = ChV
    /\ gRestart = "no" /\ ~gArmed
    /\ data_is_valid # Unassigned
    /\ array_index = Unassigned

====
